---- MODULE Spec2Model ----
(***************************************************************************)
(* A model of astro (src/astro.go): a bulb-exposure capture session on a   *)
(* tethered camera.  The main flow validates the flags, initialises the    *)
(* camera, and runs CaptureLoop / CaptureBulb; a goroutine per exposure    *)
(* prints the countdown; a goroutine started in main releases the shutter  *)
(* and exits on SIGINT.  Goroutines are interleaved step by step, one      *)
(* device call per step.                                                   *)
(***************************************************************************)
EXTENDS Integers, Sequences, FiniteSets, TLC

(***************************************************************************)
(* Go's int.  flag.IntVar parses into a 64-bit two's complement int, and   *)
(* Frames*Duration wraps.  A value is kept as IntBytes little-endian bytes *)
(* so that values beyond the model checker's own integers can be held.     *)
(***************************************************************************)
IntBytes == 8

ByteIdx == 1..IntBytes

\* the int of a small non-negative number (n < 2^24)
I64(n) ==
  [i \in ByteIdx |->
     IF i = 1 THEN n % 256
     ELSE IF i = 2 THEN (n \div 256) % 256
     ELSE IF i = 3 THEN (n \div 65536) % 256
     ELSE 0]

\* math.MaxInt64 = 9223372036854775807
MaxInt64 == [i \in ByteIdx |-> IF i = IntBytes THEN 127 ELSE 255]

IsNeg(x) == x[IntBytes] >= 128

IsZero(x) == \A i \in ByteIdx : x[i] = 0

RECURSIVE ColSum(_, _, _, _)
\* sum of a[i]*b[k+1-i] for i in 1..j : column k of the schoolbook product
ColSum(a, b, k, j) ==
  IF j = 0 THEN 0 ELSE a[j] * b[k + 1 - j] + ColSum(a, b, k, j - 1)

RECURSIVE MulCarry(_, _, _)
\* carry into column k
MulCarry(a, b, k) ==
  IF k = 1 THEN 0
  ELSE (ColSum(a, b, k - 1, k - 1) + MulCarry(a, b, k - 1)) \div 256

\* a * b on Go ints: the low 64 bits of the product
Mul64(a, b) ==
  [k \in ByteIdx |-> (ColSum(a, b, k, k) + MulCarry(a, b, k)) % 256]

RECURSIVE ULess(_, _, _)
ULess(a, b, i) ==
  IF i = 0 THEN FALSE
  ELSE IF a[i] # b[i] THEN a[i] < b[i]
  ELSE ULess(a, b, i - 1)

\* a < b on Go ints (signed)
Less64(a, b) ==
  IF IsNeg(a) # IsNeg(b) THEN IsNeg(a) ELSE ULess(a, b, IntBytes)

\* the value of a small non-negative int (below 2^24)
AsNat(x) == x[1] + 256 * x[2] + 65536 * x[3]

(***************************************************************************)
(* Bounds of the model.                                                    *)
(***************************************************************************)
\* exposure cycles the capture loop may start
MaxCycles == 2

\* files deleted on the camera by someone other than the program
MaxRemovals == 1

\* records of a manifest handed to FindNew in SpecFindNew
MaxLen == 2

(***************************************************************************)
(* Inputs.                                                                 *)
(***************************************************************************)
KindChoices == {"lights", "darks", "flats"}

FramesChoices == {I64(0), I64(1), I64(2), I64(14400), I64(14401), MaxInt64}

DurationChoices == {I64(0), I64(1), I64(2)}

Config(kind, frames_, duration, keep) ==
  [Kind |-> kind, Frames |-> frames_, Duration |-> duration, Keep |-> keep]

\* the flag values of Spec: an unbounded session, bounded ones, and two
\* that the sanity checks turn down
Configs ==
  { Config("lights", I64(0), I64(1), FALSE),
    Config("darks", I64(2), I64(1), TRUE),
    Config("lights", I64(1), I64(2), FALSE),
    Config("darks", I64(1), I64(0), FALSE),
    Config("flats", I64(1), I64(1), FALSE),
    Config("darks", I64(14401), I64(2), FALSE) }

\* the file names the camera uses, in the order of its numbering
NameSeq == <<"IMG_1", "IMG_2", "IMG_3">>

FileNames == {NameSeq[i] : i \in 1..Len(NameSeq)}

\* the directories of the card under DCIM, in listing order
FolderNames == <<"100CANON", "101CANON">>

FolderIdx == 1..Len(FolderNames)

BatteryLevels == {"100%", "50%"}

(***************************************************************************)
(* gphoto2.CameraFilePath and CameraFiles.                                 *)
(***************************************************************************)
FileNode(name, folder) ==
  [Name |-> name, Folder |-> folder, Dir |-> FALSE, Children |-> <<>>]

DirNode(name, folder, children) ==
  [Name |-> name, Folder |-> folder, Dir |-> TRUE, Children |-> children]

RECURSIVE Concat(_)
Concat(ss) == IF ss = <<>> THEN <<>> ELSE Head(ss) \o Concat(Tail(ss))

\* the children of every node of a level, in order
ChildrenOf(nodes) == Concat([i \in 1..Len(nodes) |-> nodes[i].Children])

\* camera.ListFiles(): storage -> DCIM -> directory -> entries.  Every
\* directory lists its files; the first one also holds a subdirectory.
ListFiles(crd) ==
  << DirNode("store_00020001", "/",
       << DirNode("DCIM", "/store_00020001",
            [k \in FolderIdx |->
               DirNode(FolderNames[k], "/store_00020001/DCIM",
                 (IF k = 1 THEN << DirNode("MISC", FolderNames[k], <<>>) >>
                           ELSE <<>>)
                 \o [i \in 1..Len(crd[k]) |->
                       FileNode(crd[k][i], FolderNames[k])])]) >>) >>

IsFile(f) == ~f.Dir

\* LoadCameraFiles appends to c the non-directory entries four levels down
LoadCameraFiles(c, storage) ==
  c \o SelectSeq(ChildrenOf(ChildrenOf(ChildrenOf(storage))), IsFile)

\* Contains comparing the directory as well as the name
ContainsByPath(c, file) ==
  \E i \in 1..Len(c) : c[i].Name = file.Name /\ c[i].Folder = file.Folder

Contains(c, file) == \E i \in 1..Len(c) : c[i].Name = file.Name

\* FindNew without the test of line 57
FindNewNoFastPath(c, files) ==
  LET IsNew(f) == ~Contains(c, f) IN SelectSeq(files, IsNew)

RECURSIVE Reverse(_)
Reverse(s) == IF s = <<>> THEN <<>> ELSE Append(Reverse(Tail(s)), Head(s))

\* FindNew with the result built newest first
FindNewNewestFirst(c, files) ==
  IF Len(c) = Len(files) THEN <<>>
  ELSE LET IsNew(f) == ~Contains(c, f) IN Reverse(SelectSeq(files, IsNew))

FindNew(c, files) ==
  IF Len(c) = Len(files) THEN <<>>
  ELSE LET IsNew(f) == ~Contains(c, f) IN SelectSeq(files, IsNew)

(***************************************************************************)
(* State.                                                                  *)
(***************************************************************************)
VARIABLES
  \* Camera fields set from the flags (main, lines 286-296)
  Frames, Duration, Kind, Keep,
  \* Camera fields set while running
  Files, Battery,
  \* the main goroutine: position, Init's progress, CaptureLoop's frame,
  \* CaptureBulb's files and newFiles and the index of its range loop
  pc, initStep, frame, files, newFiles, dlIdx,
  \* the goroutine of main lines 320-326 and the signal channel (buffer 1)
  hpc, sig,
  \* the print goroutines of CaptureBulb lines 145-150, one record each
  reporters,
  \* the camera: files per directory, the last remote-release value it took,
  \* whether it holds an exposure not yet stored, how many files were deleted
  \* on it by hand; the names created under <target>/<kind>
  card, shutter, exposure, removals, hostFiles,
  \* how the process ended
  exitBy, exitCode,
  \* history: a device call was made; names ever on the card; the device
  \* itself only added files, each under a name never used before; the
  \* <<frame, name>> pairs downloaded; the frames handed to CaptureBulb;
  \* SetConfig(EosRemoteRelease, "Release Full") calls since the first
  \* interrupt; whether the first interrupt came during the exposure; the
  \* call that failed
  devUsed, everOnCard, onlyAdded, downloads, cycles, relAttempts,
  intAt, failed,
  \* SpecFindNew: the two manifests, the result, and whether it was computed
  fnA, fnB, fnOut, fnPc,
  \* history: the device and file-system calls CaptureBulb has made in the
  \* cycle under way, each with its outcome; the lines printed, each as the
  \* frame, the seconds and the c.Battery it was formatted from; the frames
  \* whose print goroutine was started
  cmds, printed, started,
  \* SpecStatus: the arguments of Status, its result, and whether it was
  \* computed
  stFrame, stSeconds, stOut, stPc

cfgVars == <<Frames, Duration, Kind, Keep>>

sessVars == <<Files, Battery>>

mainVars == <<pc, initStep, frame, files, newFiles, dlIdx>>

abortVars == <<hpc, sig>>

devVars == <<card, shutter, exposure, removals, hostFiles>>

exitVars == <<exitBy, exitCode>>

histVars == <<devUsed, everOnCard, onlyAdded, downloads, cycles, relAttempts,
              intAt, failed>>

fnVars == <<fnA, fnB, fnOut, fnPc>>

stVars == <<stFrame, stSeconds, stOut, stPc>>

vars == <<cfgVars, sessVars, mainVars, abortVars, reporters, devVars,
          exitVars, histVars, fnVars, cmds, printed, started, stVars>>

RECURSIVE SeqsOver(_, _)
\* the sequences over S of length at most n
SeqsOver(S, n) ==
  IF n = 0 THEN {<<>>}
  ELSE LET shorter == SeqsOver(S, n - 1)
       IN shorter \cup {Append(s, x) : s \in {t \in shorter : Len(t) = n - 1}, x \in S}

CardSize(crd) == Len(Concat(crd))

CardNames(crd) == {Concat(crd)[i] : i \in 1..CardSize(crd)}

\* what can be on the card when the program starts
\* a card with one file, in directory d
OneFileCard(d) == [k \in FolderIdx |-> IF k = d THEN <<NameSeq[1]>> ELSE <<>>]

\* what can be on the card when the program starts: nothing, or one file
InitCards == {[k \in FolderIdx |-> <<>>]} \cup {OneFileCard(d) : d \in FolderIdx}

\* the card of the runs that stop before the capture loop
OneCard == OneFileCard(1)

InitProgram(crd) ==
  /\ Files = <<>>
  /\ Battery = ""
  /\ pc = "validate"
  /\ initStep = 1
  /\ frame = 0
  /\ files = <<>>
  /\ newFiles = <<>>
  /\ dlIdx = 1
  /\ hpc = "off"
  /\ sig = 0
  /\ reporters = {}
  /\ card = crd
  /\ shutter = "none"
  /\ exposure = FALSE
  /\ removals = 0
  /\ hostFiles = {}
  /\ exitBy = "none"
  /\ exitCode = 0
  /\ devUsed = FALSE
  /\ everOnCard = CardNames(crd)
  /\ onlyAdded = TRUE
  /\ downloads = {}
  /\ cycles = <<>>
  /\ relAttempts = 0
  /\ intAt = "none"
  /\ failed = "none"
  /\ cmds = <<>>
  /\ printed = <<>>
  /\ started = {}

FnIdle ==
  /\ fnA = <<>>
  /\ fnB = <<>>
  /\ fnOut = <<>>
  /\ fnPc = "idle"

StIdle ==
  /\ stFrame = 0
  /\ stSeconds = 0
  /\ stOut = ""
  /\ stPc = "idle"

Init ==
  /\ \E c \in Configs :
       /\ Kind = c.Kind
       /\ Frames = c.Frames
       /\ Duration = c.Duration
       /\ Keep = c.Keep
  /\ \E crd \in InitCards : InitProgram(crd)
  /\ FnIdle
  /\ StIdle

\* every combination of the flag values, for the runs up to the capture loop
InitFlags ==
  /\ Kind \in KindChoices
  /\ Frames \in FramesChoices
  /\ Duration \in DurationChoices
  /\ Keep \in BOOLEAN
  /\ InitProgram(OneCard)
  /\ FnIdle
  /\ StIdle

Running == exitBy = "none"

(***************************************************************************)
(* main: the sanity checks (lines 297-305).  A rejected configuration      *)
(* prints a message and returns from main.                                 *)
(***************************************************************************)
BadKind == Kind # "lights" /\ Kind # "darks"

TooLong == Less64(I64(28800), Mul64(Frames, Duration))

Validate ==
  /\ Running
  /\ pc = "validate"
  /\ IF BadKind \/ TooLong
     THEN /\ pc' = "exited"
          /\ exitBy' = "return"
          /\ exitCode' = 0
     ELSE /\ pc' = "init"
          /\ UNCHANGED exitVars
  /\ UNCHANGED <<cfgVars, sessVars, initStep, frame, files, newFiles, dlIdx,
                 abortVars, reporters, devVars, histVars, fnVars, cmds, printed,
                 started, stVars>>

(***************************************************************************)
(* log.Fatal(err) in main (lines 308, 330, 335): the error of Init,        *)
(* CaptureLoop or Close ends the process with status 1.                    *)
(***************************************************************************)
\* the error is dropped and the loop goes on
FatalSkipped(op) ==
  /\ pc' = "loop"
  /\ UNCHANGED exitVars
  /\ failed' = op

Fatal(op) ==
  /\ pc' = "exited"
  /\ exitBy' = "fatal"
  /\ exitCode' = 1
  /\ failed' = op

(***************************************************************************)
(* Camera.Init (lines 200-269): the device calls in order.                 *)
(***************************************************************************)
InitCalls ==
  << "NewCamera",
     "GetSetting(cameramodel)", "Get(cameramodel)",
     "GetSetting(lensname)", "Get(lensname)",
     "ListFiles",
     "GetSetting(focusmode)", "Set(focusmode)",
     "GetSetting(shutterspeed)", "Set(shutterspeed)",
     "GetSetting(iso)", "Set(iso)",
     "GetSetting(whitebalance)", "Set(whitebalance)",
     "GetSetting(imageformat)", "Set(imageformat)",
     "GetSetting(aperture)", "Set(aperture)",
     "GetSetting(capturetarget)", "Set(capturetarget)",
     "GetSetting(batterylevel)", "Get(batterylevel)" >>

InitCall(ok, level) ==
  /\ Running
  /\ pc = "init"
  /\ devUsed' = TRUE
  /\ IF ok
     THEN /\ Files' = IF InitCalls[initStep] = "ListFiles"
                      THEN LoadCameraFiles(Files, ListFiles(card))
                      ELSE Files
          /\ Battery' = IF InitCalls[initStep] = "Get(batterylevel)"
                        THEN level
                        ELSE Battery
          /\ IF initStep = Len(InitCalls)
             THEN pc' = "notify" /\ UNCHANGED initStep
             ELSE initStep' = initStep + 1 /\ UNCHANGED pc
          /\ UNCHANGED <<exitVars, failed>>
     ELSE /\ Fatal(InitCalls[initStep])
          /\ UNCHANGED <<sessVars, initStep>>
  /\ UNCHANGED <<cfgVars, frame, files, newFiles, dlIdx, abortVars, reporters,
                 devVars, everOnCard, onlyAdded, downloads, cycles,
                 relAttempts, intAt, fnVars, cmds, printed,
                 started, stVars>>

CameraInit ==
  \E ok \in BOOLEAN, level \in BatteryLevels :
    /\ (InitCalls[initStep] # "Get(batterylevel)" \/ ~ok) => level = "100%"
    /\ InitCall(ok, level)

(***************************************************************************)
(* main lines 317-326: signal.Notify and the goroutine that waits on the   *)
(* channel.                                                                *)
(***************************************************************************)
Notify ==
  /\ Running
  /\ pc = "notify"
  /\ pc' = "loop"
  /\ hpc' = "wait"
  /\ UNCHANGED <<cfgVars, sessVars, initStep, frame, files, newFiles, dlIdx,
                 sig, reporters, devVars, exitVars, histVars, fnVars, cmds, printed,
                 started, stVars>>

(***************************************************************************)
(* CaptureLoop (lines 272-282).                                            *)
(***************************************************************************)
\* the loop condition with <= for <
LoopCondOffByOne(f) == IsZero(Frames) \/ ~Less64(Frames, I64(f))

\* the loop condition without the test for 0
LoopCondBounded(f) == Less64(I64(f), Frames)

\* the loop condition: c.Frames == 0 || frame < c.Frames
LoopCond(f) == IsZero(Frames) \/ Less64(I64(f), Frames)

\* the frame number handed to CaptureBulb
FrameArg(f) == f + 1

LoopEnter ==
  /\ Running
  /\ pc = "loop"
  /\ LoopCond(frame)
  /\ frame < MaxCycles
  /\ pc' = "bat_get"
  /\ cycles' = Append(cycles, FrameArg(frame))
  /\ cmds' = <<>>
  /\ UNCHANGED <<cfgVars, sessVars, initStep, frame, files, newFiles, dlIdx,
                 abortVars, reporters, devVars, exitVars, devUsed, everOnCard,
                 onlyAdded, downloads, relAttempts, intAt, failed,
                 fnVars, printed,
                 started, stVars>>

LoopDone ==
  /\ Running
  /\ pc = "loop"
  /\ ~LoopCond(frame)
  /\ pc' = "close_exit"
  /\ UNCHANGED <<cfgVars, sessVars, initStep, frame, files, newFiles, dlIdx,
                 abortVars, reporters, devVars, exitVars, histVars, fnVars, cmds, printed,
                 started, stVars>>

\* CaptureBulb returned nil (line 184) with `listed` as its files: frame++
\* and back to the loop condition.  c.Files is not assigned.
CycleReturnAdvancing(listed) ==
  /\ pc' = "loop"
  /\ frame' = frame + 1
  /\ Files' = listed

CycleReturn(listed) ==
  /\ pc' = "loop"
  /\ frame' = frame + 1
  /\ Files' = Files

(***************************************************************************)
(* CaptureBulb (lines 133-185), one step per device or file-system call.   *)
(* A failed call returns the error up to main, which ends the process.     *)
(***************************************************************************)
\* CaptureBulb makes the call op and it succeeds or fails
Issue(op, ok) == cmds' = Append(cmds, [op |-> op, ok |-> ok])

\* GetBatteryStatus: c.camera.GetSetting(BatteryLevel)
BatteryGetSetting ==
  \E ok \in BOOLEAN :
    /\ Running
    /\ pc = "bat_get"
    /\ devUsed' = TRUE
    /\ Issue("GetSetting(batterylevel)", ok)
    /\ IF ok THEN pc' = "bat_val" /\ UNCHANGED <<exitVars, failed>>
             ELSE Fatal("GetSetting(batterylevel)")
    /\ UNCHANGED <<cfgVars, sessVars, initStep, frame, files, newFiles, dlIdx,
                 abortVars, reporters, devVars, everOnCard, onlyAdded,
                 downloads, cycles, relAttempts, intAt, fnVars, printed,
                 started, stVars>>

\* GetBatteryStatus: battery.Get(), then c.Battery = battery
BatteryGet ==
  \E ok \in BOOLEAN, level \in BatteryLevels :
    /\ Running
    /\ pc = "bat_val"
    /\ devUsed' = TRUE
    /\ Issue("Get(batterylevel)", ok)
    /\ IF ok THEN /\ pc' = "arm_get"
                  /\ Battery' = level
                  /\ UNCHANGED <<exitVars, failed>>
             ELSE /\ level = "100%"
                  /\ Fatal("Get(batterylevel)")
                  /\ UNCHANGED Battery
    /\ UNCHANGED <<cfgVars, Files, initStep, frame, files, newFiles, dlIdx,
                 abortVars, reporters, devVars, everOnCard, onlyAdded,
                 downloads, cycles, relAttempts, intAt, fnVars, printed,
                 started, stVars>>

\* SetConfig(EosRemoteRelease, "Immediate"): GetSetting
ArmGetSetting ==
  \E ok \in BOOLEAN :
    /\ Running
    /\ pc = "arm_get"
    /\ devUsed' = TRUE
    /\ Issue("GetSetting(eosremoterelease)", ok)
    /\ IF ok THEN pc' = "arm_set" /\ UNCHANGED <<exitVars, failed>>
             ELSE Fatal("GetSetting(eosremoterelease)")
    /\ UNCHANGED <<cfgVars, sessVars, initStep, frame, files, newFiles, dlIdx,
                 abortVars, reporters, devVars, everOnCard, onlyAdded,
                 downloads, cycles, relAttempts, intAt, fnVars, printed,
                 started, stVars>>

\* the print goroutine of frame f: for left := c.Duration; left > 0; left--
StartReporter(f) ==
  IF Less64(I64(0), Duration)
  THEN reporters \cup {[frame |-> f, left |-> AsNat(Duration)]}
  ELSE reporters

\* SetConfig(EosRemoteRelease, "Immediate"): setting.Set; then go func()
ArmSet ==
  \E ok \in BOOLEAN :
    /\ Running
    /\ pc = "arm_set"
    /\ devUsed' = TRUE
    /\ Issue("Set(Immediate)", ok)
    /\ IF ok THEN /\ pc' = "exposing"
                  /\ shutter' = "Immediate"
                  /\ reporters' = StartReporter(FrameArg(frame))
                  /\ started' = started \cup {FrameArg(frame)}
                  /\ UNCHANGED <<exitVars, failed>>
             ELSE /\ Fatal("Set(eosremoterelease)")
                  /\ UNCHANGED <<shutter, reporters, started>>
    /\ UNCHANGED <<cfgVars, sessVars, initStep, frame, files, newFiles, dlIdx,
                 abortVars, card, hostFiles, exposure, removals, everOnCard, onlyAdded, downloads,
                 cycles, relAttempts, intAt, fnVars, printed, stVars>>

\* the wait ends only when the countdown of the frame is over
ExposedAfterCountdown ==
  /\ Running
  /\ pc = "exposing"
  /\ \A r \in reporters : r.frame # FrameArg(frame)
  /\ pc' = "rel_get"
  /\ UNCHANGED <<cfgVars, sessVars, initStep, frame, files, newFiles, dlIdx,
                 abortVars, reporters, devVars, exitVars, histVars, fnVars,
                 cmds, printed, started, stVars>>

\* time.Sleep(Duration seconds + 100ms) returns
Exposed ==
  /\ Running
  /\ pc = "exposing"
  /\ pc' = "rel_get"
  /\ UNCHANGED <<cfgVars, sessVars, initStep, frame, files, newFiles, dlIdx,
                 abortVars, reporters, devVars, exitVars, histVars, fnVars, cmds, printed,
                 started, stVars>>

\* the camera takes eosremoterelease = "Release Full": an open shutter
\* closes, and the exposure is there to be stored
ReleaseFull ==
  /\ shutter' = "Release Full"
  /\ exposure' = (exposure \/ shutter = "Immediate")

\* SetConfig(EosRemoteRelease, "Release Full"): GetSetting
ReleaseGetSetting ==
  \E ok \in BOOLEAN :
    /\ Running
    /\ pc = "rel_get"
    /\ devUsed' = TRUE
    /\ Issue("GetSetting(eosremoterelease)", ok)
    /\ relAttempts' = IF intAt # "none" THEN relAttempts + 1 ELSE relAttempts
    /\ IF ok THEN pc' = "rel_set" /\ UNCHANGED <<exitVars, failed>>
             ELSE Fatal("GetSetting(eosremoterelease)")
    /\ UNCHANGED <<cfgVars, sessVars, initStep, frame, files, newFiles, dlIdx,
                 abortVars, reporters, devVars, everOnCard, onlyAdded,
                 downloads, cycles, intAt, fnVars, printed,
                 started, stVars>>

\* SetConfig(EosRemoteRelease, "Release Full"): setting.Set
ReleaseSet ==
  \E ok \in BOOLEAN :
    /\ Running
    /\ pc = "rel_set"
    /\ devUsed' = TRUE
    /\ Issue("Set(Release Full)", ok)
    /\ IF ok THEN /\ pc' = "settling"
                  /\ ReleaseFull
                  /\ UNCHANGED <<exitVars, failed>>
             ELSE /\ Fatal("Set(eosremoterelease)")
                  /\ UNCHANGED <<shutter, exposure>>
    /\ UNCHANGED <<cfgVars, sessVars, initStep, frame, files, newFiles, dlIdx,
                 abortVars, reporters, card, hostFiles, removals, everOnCard, onlyAdded,
                 downloads, cycles, relAttempts, intAt, fnVars, printed,
                 started, stVars>>

\* the wait is followed by the listing, with no reset
SettledSkipsReset ==
  /\ Running
  /\ pc = "settling"
  /\ pc' = "list"
  /\ UNCHANGED <<cfgVars, sessVars, initStep, frame, files, newFiles, dlIdx,
                 abortVars, reporters, devVars, exitVars, histVars, fnVars,
                 cmds, printed, started, stVars>>

\* time.Sleep(2 seconds) returns
Settled ==
  /\ Running
  /\ pc = "settling"
  /\ pc' = "reset"
  /\ UNCHANGED <<cfgVars, sessVars, initStep, frame, files, newFiles, dlIdx,
                 abortVars, reporters, devVars, exitVars, histVars, fnVars, cmds, printed,
                 started, stVars>>

\* c.camera.Reset()
Reset ==
  \E ok \in BOOLEAN :
    /\ Running
    /\ pc = "reset"
    /\ devUsed' = TRUE
    /\ Issue("Reset", ok)
    /\ IF ok THEN pc' = "list" /\ UNCHANGED <<exitVars, failed>>
             ELSE Fatal("Reset")
    /\ UNCHANGED <<cfgVars, sessVars, initStep, frame, files, newFiles, dlIdx,
                 abortVars, reporters, devVars, everOnCard, onlyAdded,
                 downloads, cycles, relAttempts, intAt, fnVars, printed,
                 started, stVars>>

\* files := new(CameraFiles); files.LoadCameraFiles; c.Files.FindNew(files);
\* with no new file the range loop is empty and CaptureBulb returns nil
List ==
  \E ok \in BOOLEAN :
    /\ Running
    /\ pc = "list"
    /\ devUsed' = TRUE
    /\ Issue("ListFiles", ok)
    /\ IF ok
       THEN /\ files' = LoadCameraFiles(<<>>, ListFiles(card))
            /\ newFiles' = FindNew(Files, files')
            /\ dlIdx' = 1
            /\ IF newFiles' = <<>>
               THEN CycleReturn(files')
               ELSE pc' = "create" /\ UNCHANGED <<frame, Files>>
            /\ UNCHANGED <<exitVars, failed>>
       ELSE /\ Fatal("ListFiles")
            /\ UNCHANGED <<frame, Files, files, newFiles, dlIdx>>
    /\ UNCHANGED <<cfgVars, Battery, initStep, abortVars, reporters, devVars,
                   everOnCard, onlyAdded, downloads, cycles, relAttempts, intAt,
                   fnVars, printed,
                 started, stVars>>

\* os.Create(<target>/<kind>/<name>)
CreateFile ==
  \E ok \in BOOLEAN :
    /\ Running
    /\ pc = "create"
    /\ Issue("Create", ok)
    /\ IF ok THEN /\ pc' = "download"
                  /\ hostFiles' = hostFiles \cup {newFiles[dlIdx].Name}
                  /\ UNCHANGED <<exitVars, failed>>
             ELSE /\ Fatal("Create")
                  /\ UNCHANGED hostFiles
    /\ UNCHANGED <<cfgVars, sessVars, initStep, frame, files, newFiles, dlIdx,
                 abortVars, reporters, card, shutter, exposure, removals, devUsed, everOnCard,
                 onlyAdded, downloads, cycles, relAttempts, intAt, fnVars, printed,
                 started, stVars>>

OnCard(crd, file) ==
  \E k \in FolderIdx :
    /\ FolderNames[k] = file.Folder
    /\ \E i \in 1..Len(crd[k]) : crd[k][i] = file.Name

RemoveFromCard(crd, file) ==
  [k \in FolderIdx |->
     IF FolderNames[k] = file.Folder
     THEN LET Other(n) == n # file.Name IN SelectSeq(crd[k], Other)
     ELSE crd[k]]

\* the second argument of file.DownloadImage (line 179): leaveOnCamera
LeaveOnCameraKept == TRUE

LeaveOnCamera == FALSE

\* the card after DownloadImage(fh, leave): unless told to leave it, the
\* library deletes the file from the camera once it is transferred
AfterDownload(crd, file, leave) ==
  IF leave THEN crd ELSE RemoveFromCard(crd, file)

\* file.DownloadImage(fh, false); after the last new file CaptureBulb
\* returns nil
Download ==
  \E ok \in BOOLEAN :
    /\ Running
    /\ pc = "download"
    /\ devUsed' = TRUE
    /\ Issue("DownloadImage", ok)
    /\ ok => OnCard(card, newFiles[dlIdx])
    /\ IF ok
       THEN /\ downloads' =
                 downloads \cup {<<FrameArg(frame), newFiles[dlIdx].Name>>}
            /\ card' = AfterDownload(card, newFiles[dlIdx], LeaveOnCamera)
            /\ IF dlIdx = Len(newFiles)
               THEN CycleReturn(files) /\ UNCHANGED dlIdx
               ELSE /\ pc' = "create"
                    /\ dlIdx' = dlIdx + 1
                    /\ UNCHANGED <<frame, Files>>
            /\ UNCHANGED <<exitVars, failed>>
       ELSE /\ Fatal("DownloadImage")
            /\ UNCHANGED <<frame, Files, dlIdx, downloads, card>>
    /\ UNCHANGED <<cfgVars, Battery, initStep, files, newFiles, abortVars,
                   reporters, shutter, exposure, removals, hostFiles, everOnCard,
                   onlyAdded, cycles, relAttempts, intAt, fnVars, printed,
                 started, stVars>>

(***************************************************************************)
(* Camera.Close (lines 188-196) and the end of main.                       *)
(***************************************************************************)
\* c.camera.Exit()
CloseExit ==
  \E ok \in BOOLEAN :
    /\ Running
    /\ pc = "close_exit"
    /\ devUsed' = TRUE
    /\ IF ok THEN pc' = "close_free" /\ UNCHANGED <<exitVars, failed>>
             ELSE Fatal("Exit")
    /\ UNCHANGED <<cfgVars, sessVars, initStep, frame, files, newFiles, dlIdx,
                 abortVars, reporters, devVars, everOnCard, onlyAdded,
                 downloads, cycles, relAttempts, intAt, fnVars, cmds, printed,
                 started, stVars>>

\* c.camera.Free(); main returns
CloseFree ==
  \E ok \in BOOLEAN :
    /\ Running
    /\ pc = "close_free"
    /\ devUsed' = TRUE
    /\ IF ok THEN /\ pc' = "exited"
                  /\ exitBy' = "return"
                  /\ exitCode' = 0
                  /\ UNCHANGED failed
             ELSE Fatal("Free")
    /\ UNCHANGED <<cfgVars, sessVars, initStep, frame, files, newFiles, dlIdx,
                 abortVars, reporters, devVars, everOnCard, onlyAdded,
                 downloads, cycles, relAttempts, intAt, fnVars, cmds, printed,
                 started, stVars>>

(***************************************************************************)
(* The print goroutine (lines 145-150): one line per second.               *)
(***************************************************************************)
\* what a read of c.Battery can give.  The goroutine reads it with no
\* synchronisation; while CaptureBulb of a later frame is storing a new
\* level (line 139) the read races with the write, and besides the old and
\* the new level it can see a string header that is half of each.
BatteryRead ==
  {Battery} \cup (IF pc = "bat_val" THEN {"(torn)"} ELSE {})

\* the line that fmt.Printf writes, as the values Status formats
Line(f, left, level) == [frame |-> f, left |-> left, battery |-> level]

\* the countdown with left >= 0 as its condition
ReporterTickThroughZero ==
  \E r \in reporters, level \in BatteryRead :
    /\ Running
    /\ printed' = Append(printed, Line(r.frame, r.left, level))
    /\ reporters' =
         (reporters \ {r})
           \cup (IF r.left > 0 THEN {[r EXCEPT !.left = r.left - 1]} ELSE {})
    /\ UNCHANGED <<cfgVars, sessVars, mainVars, abortVars, devVars, exitVars,
                 histVars, fnVars, cmds, started, stVars>>

\* fmt.Printf("%s\r", c.Status(frame, left)); time.Sleep(time.Second); left--
ReporterTick ==
  \E r \in reporters, level \in BatteryRead :
    /\ Running
    /\ printed' = Append(printed, Line(r.frame, r.left, level))
    /\ reporters' =
         (reporters \ {r})
           \cup (IF r.left > 1 THEN {[r EXCEPT !.left = r.left - 1]} ELSE {})
    /\ UNCHANGED <<cfgVars, sessVars, mainVars, abortVars, devVars, exitVars,
                 histVars, fnVars, cmds, started, stVars>>

(***************************************************************************)
(* SIGINT and the goroutine of main lines 320-326.                         *)
(***************************************************************************)
\* a SIGINT once signal.Notify is in place.  One that comes when the
\* channel is full is dropped, and one that comes after the goroutine took
\* the first stays in the channel, never received: neither changes anything
Interrupt ==
  /\ Running
  /\ hpc = "wait"
  /\ sig = 0
  /\ sig' = 1
  /\ intAt' = IF intAt # "none" THEN intAt
              ELSE IF pc = "exposing" THEN "exposing"
              ELSE "other"
  /\ UNCHANGED <<cfgVars, sessVars, mainVars, hpc, reporters, devVars,
                 exitVars, devUsed, everOnCard, onlyAdded, downloads, cycles,
                 relAttempts, failed, fnVars, cmds, printed,
                 started, stVars>>

\* for _ = range c
AbortReceive ==
  /\ Running
  /\ hpc = "wait"
  /\ sig = 1
  /\ sig' = 0
  /\ hpc' = "get"
  /\ UNCHANGED <<cfgVars, sessVars, mainVars, reporters, devVars, exitVars,
                 histVars, fnVars, cmds, printed,
                 started, stVars>>

\* the goroutine's SetConfig held back while a command of CaptureBulb is
\* half done, as under a lock around each command
AbortGetSettingSerialized ==
  \E ok \in BOOLEAN :
    /\ Running
    /\ hpc = "get"
    /\ pc \notin {"bat_val", "arm_set", "rel_set"}
    /\ devUsed' = TRUE
    /\ relAttempts' = relAttempts + 1
    /\ hpc' = IF ok THEN "set" ELSE "exit"
    /\ UNCHANGED <<cfgVars, sessVars, mainVars, sig, reporters, devVars,
                 exitVars, everOnCard, onlyAdded, downloads, cycles, intAt,
                 failed, fnVars, cmds, printed, started, stVars>>

\* camera.SetConfig(EosRemoteRelease, "Release Full"): GetSetting
AbortGetSetting ==
  \E ok \in BOOLEAN :
    /\ Running
    /\ hpc = "get"
    /\ devUsed' = TRUE
    /\ relAttempts' = relAttempts + 1
    /\ hpc' = IF ok THEN "set" ELSE "exit"
    /\ UNCHANGED <<cfgVars, sessVars, mainVars, sig, reporters, devVars,
                 exitVars, everOnCard, onlyAdded, downloads, cycles, intAt,
                 failed, fnVars, cmds, printed,
                 started, stVars>>

\* camera.SetConfig(EosRemoteRelease, "Release Full"): setting.Set; the
\* error is dropped
AbortSet ==
  \E ok \in BOOLEAN :
    /\ Running
    /\ hpc = "set"
    /\ devUsed' = TRUE
    /\ IF ok THEN ReleaseFull ELSE UNCHANGED <<shutter, exposure>>
    /\ hpc' = "exit"
    /\ UNCHANGED <<cfgVars, sessVars, mainVars, sig, reporters, card, hostFiles, removals,
                 exitVars, everOnCard, onlyAdded, downloads, cycles,
                 relAttempts, intAt, failed, fnVars, cmds, printed,
                 started, stVars>>

\* os.Exit(1)
AbortExit ==
  /\ Running
  /\ hpc = "exit"
  /\ hpc' = "exited"
  /\ exitBy' = "abort"
  /\ exitCode' = 1
  /\ UNCHANGED <<cfgVars, sessVars, mainVars, sig, reporters, devVars,
                 histVars, fnVars, cmds, printed,
                 started, stVars>>

(***************************************************************************)
(* The camera and whoever handles it, while frames are being captured.     *)
(***************************************************************************)
Capturing == pc \notin {"validate", "init", "notify", "exited"}

\* the camera stores the exposure as a file of its current (last) directory
DeviceAdd ==
  \E name \in FileNames :
    /\ Running
    /\ Capturing
    /\ exposure
    /\ exposure' = FALSE
    /\ \A i \in 1..Len(card[Len(FolderNames)]) :
         card[Len(FolderNames)][i] # name
    /\ card' = [card EXCEPT ![Len(FolderNames)] = Append(@, name)]
    /\ everOnCard' = everOnCard \cup {name}
    /\ onlyAdded' = (onlyAdded /\ name \notin everOnCard)
    /\ UNCHANGED <<cfgVars, sessVars, mainVars, abortVars, reporters, shutter,
                 hostFiles, removals, exitVars, devUsed, downloads, cycles, relAttempts,
                 intAt, failed, fnVars, cmds, printed,
                 started, stVars>>

\* a file is deleted on the camera
DeviceRemove ==
  \E k \in FolderIdx :
    \E i \in 1..Len(card[k]) :
      /\ Running
      /\ Capturing
      /\ removals < MaxRemovals
      /\ removals' = removals + 1
      /\ card' = RemoveFromCard(card, FileNode(card[k][i], FolderNames[k]))
      /\ onlyAdded' = FALSE
      /\ UNCHANGED <<cfgVars, sessVars, mainVars, abortVars, reporters, shutter,
                 hostFiles, exposure, exitVars, devUsed, everOnCard, downloads, cycles,
                 relAttempts, intAt, failed, fnVars, cmds, printed,
                 started, stVars>>

Next ==
  \/ Validate
  \/ CameraInit
  \/ Notify
  \/ LoopEnter
  \/ LoopDone
  \/ BatteryGetSetting
  \/ BatteryGet
  \/ ArmGetSetting
  \/ ArmSet
  \/ Exposed
  \/ ReleaseGetSetting
  \/ ReleaseSet
  \/ Settled
  \/ Reset
  \/ List
  \/ CreateFile
  \/ Download
  \/ CloseExit
  \/ CloseFree
  \/ ReporterTick
  \/ Interrupt
  \/ AbortReceive
  \/ AbortGetSetting
  \/ AbortSet
  \/ AbortExit
  \/ DeviceAdd
  \/ DeviceRemove

Spec == Init /\ [][Next]_vars

\* main up to the start of the capture loop, over every flag combination
NextFlags ==
  \/ Validate
  \/ CameraInit
  \/ Notify

SpecFlags == InitFlags /\ [][NextFlags]_vars

(***************************************************************************)
(* The capture session without the countdown lines and without deletions   *)
(* by hand.  A print goroutine changes nothing but its own countdown and   *)
(* the lines printed, and no step of another goroutine reads either.       *)
(***************************************************************************)
NextCapture ==
  \/ Validate
  \/ CameraInit
  \/ Notify
  \/ LoopEnter
  \/ LoopDone
  \/ BatteryGetSetting
  \/ BatteryGet
  \/ ArmGetSetting
  \/ ArmSet
  \/ Exposed
  \/ ReleaseGetSetting
  \/ ReleaseSet
  \/ Settled
  \/ Reset
  \/ List
  \/ CreateFile
  \/ Download
  \/ CloseExit
  \/ CloseFree
  \/ Interrupt
  \/ AbortReceive
  \/ AbortGetSetting
  \/ AbortSet
  \/ AbortExit
  \/ DeviceAdd

SpecCapture == Init /\ [][NextCapture]_vars

(***************************************************************************)
(* The capture session with the countdown lines, without SIGINT and        *)
(* without deletions by hand.                                              *)
(***************************************************************************)
NextReport ==
  \/ Validate
  \/ CameraInit
  \/ Notify
  \/ LoopEnter
  \/ LoopDone
  \/ BatteryGetSetting
  \/ BatteryGet
  \/ ArmGetSetting
  \/ ArmSet
  \/ Exposed
  \/ ReleaseGetSetting
  \/ ReleaseSet
  \/ Settled
  \/ Reset
  \/ List
  \/ CreateFile
  \/ Download
  \/ CloseExit
  \/ CloseFree
  \/ ReporterTick
  \/ DeviceAdd

SpecReport == Init /\ [][NextReport]_vars

\* each time.Sleep(time.Second) of a print goroutine returns and the
\* goroutine gets to run
SpecReportFair == SpecReport /\ WF_vars(ReporterTick)

(***************************************************************************)
(* The capture session and the card: files stored by the camera and files  *)
(* deleted on it by hand, without SIGINT and without the countdown lines.  *)
(***************************************************************************)
NextStorage ==
  \/ Validate
  \/ CameraInit
  \/ Notify
  \/ LoopEnter
  \/ LoopDone
  \/ BatteryGetSetting
  \/ BatteryGet
  \/ ArmGetSetting
  \/ ArmSet
  \/ Exposed
  \/ ReleaseGetSetting
  \/ ReleaseSet
  \/ Settled
  \/ Reset
  \/ List
  \/ CreateFile
  \/ Download
  \/ CloseExit
  \/ CloseFree
  \/ DeviceAdd
  \/ DeviceRemove

SpecStorage == Init /\ [][NextStorage]_vars

(***************************************************************************)
(* FindNew on its own: every pair of manifests of at most MaxLen records.  *)
(***************************************************************************)
ManifestRecords ==
  {FileNode(n, FolderNames[k]) : n \in FileNames, k \in FolderIdx}

Manifests == SeqsOver(ManifestRecords, MaxLen)

InitFindNew ==
  /\ Kind = "lights"
  /\ Frames = I64(1)
  /\ Duration = I64(1)
  /\ Keep = FALSE
  /\ InitProgram(OneCard)
  /\ fnA \in Manifests
  /\ fnB \in Manifests
  /\ fnOut = <<>>
  /\ fnPc = "idle"
  /\ StIdle

\* result := fnA.FindNew(&fnB)
FindNewCall ==
  /\ fnPc = "idle"
  /\ fnOut' = FindNew(fnA, fnB)
  /\ fnPc' = "done"
  /\ UNCHANGED <<cfgVars, sessVars, mainVars, abortVars, reporters, devVars,
                 exitVars, histVars, fnA, fnB, cmds, printed,
                 started, stVars>>

SpecFindNew == InitFindNew /\ [][FindNewCall]_vars

(***************************************************************************)
(* Camera.Status (lines 112-130): fmt.Sprintf with %s, %d and %3d.         *)
(***************************************************************************)
Digits == <<"0", "1", "2", "3", "4", "5", "6", "7", "8", "9">>

RECURSIVE Itoa(_)
\* %d
Itoa(n) ==
  IF n < 0 THEN "-" \o Itoa(0 - n)
  ELSE IF n < 10 THEN Digits[n + 1]
  ELSE Itoa(n \div 10) \o Digits[(n % 10) + 1]

RECURSIVE PadLeft(_, _)
\* blanks on the left up to the width; a longer text is left as it is
PadLeft(s, width) == IF Len(s) >= width THEN s ELSE PadLeft(" " \o s, width)

\* %3d
Fmt3d(n) == PadLeft(Itoa(n), 3)

\* Status with the seconds as %d
StatusPlainSeconds(fr, seconds) ==
  IF IsZero(Frames)
  THEN "Capturing " \o Kind \o " frame " \o Fmt3d(fr) \o "; "
         \o Itoa(seconds) \o " seconds remaining; battery: " \o Battery
  ELSE "Capturing " \o Kind \o " frame " \o Fmt3d(fr) \o "/"
         \o Itoa(AsNat(Frames)) \o "; " \o Itoa(seconds)
         \o " seconds remaining; battery: " \o Battery

Status(fr, seconds) ==
  IF IsZero(Frames)
  THEN "Capturing " \o Kind \o " frame " \o Fmt3d(fr) \o "; "
         \o Fmt3d(seconds) \o " seconds remaining; battery: " \o Battery
  ELSE "Capturing " \o Kind \o " frame " \o Fmt3d(fr) \o "/"
         \o Itoa(AsNat(Frames)) \o "; " \o Fmt3d(seconds)
         \o " seconds remaining; battery: " \o Battery

\* Status on its own: the session fields it reads and its two arguments
StatusFrames == {I64(0), I64(2), I64(10)}

StatusKinds == {"lights", "darks"}

StatusBatteries == {"75%", "60%"}

StatusFrameArgs == {2, 3, 10, 100, 1000}

StatusSecondsArgs == {1, 12, 45, 100}

InitStatus ==
  /\ Kind \in StatusKinds
  /\ Frames \in StatusFrames
  /\ Duration = I64(1)
  /\ Keep = FALSE
  /\ Battery \in StatusBatteries
  /\ stFrame \in StatusFrameArgs
  /\ stSeconds \in StatusSecondsArgs
  /\ stOut = ""
  /\ stPc = "idle"
  /\ Files = <<>>
  /\ pc = "exposing"
  /\ initStep = Len(InitCalls)
  /\ frame = 0
  /\ files = <<>>
  /\ newFiles = <<>>
  /\ dlIdx = 1
  /\ hpc = "wait"
  /\ sig = 0
  /\ reporters = {}
  /\ card = OneCard
  /\ shutter = "Immediate"
  /\ exposure = FALSE
  /\ removals = 0
  /\ hostFiles = {}
  /\ exitBy = "none"
  /\ exitCode = 0
  /\ devUsed = TRUE
  /\ everOnCard = CardNames(OneCard)
  /\ onlyAdded = TRUE
  /\ downloads = {}
  /\ cycles = <<>>
  /\ relAttempts = 0
  /\ intAt = "none"
  /\ failed = "none"
  /\ cmds = <<>>
  /\ printed = <<>>
  /\ started = {}
  /\ FnIdle

\* stOut := c.Status(stFrame, stSeconds)
StatusCall ==
  /\ stPc = "idle"
  /\ stOut' = Status(stFrame, stSeconds)
  /\ stPc' = "done"
  /\ UNCHANGED <<cfgVars, sessVars, mainVars, abortVars, reporters, devVars,
                 exitVars, histVars, fnVars, cmds, printed, started, stFrame,
                 stSeconds>>

SpecStatus == InitStatus /\ [][StatusCall]_vars

(***************************************************************************)
(* Properties.                                                             *)
(***************************************************************************)
Positive(x) == Less64(I64(0), x)

\* <<1, 2, ..., n>>
UpTo(n) == [i \in 1..n |-> i]

\* the names downloaded in frame f
DownloadedIn(f) == {d[2] : d \in {e \in downloads : e[1] = f}}

\* C1: while the camera has only added files, each under a name the card
\* never held before, no file name is downloaded in more than one exposure
\* cycle of the session.
C1_NoDoubleDownload ==
  onlyAdded =>
    \A d1, d2 \in downloads : d1[2] = d2[2] => d1[1] = d2[1]

\* C1 witness: two cycles have each downloaded a file and the camera only
\* added files
C1_Witness ==
  /\ onlyAdded
  /\ DownloadedIn(1) # {}
  /\ DownloadedIn(2) # {}

C3_OneReleaseThenExit ==
  (intAt = "exposing" /\ ~Running) => (relAttempts = 1 /\ exitCode # 0)

\* C4 as stated: when the goroutine of the interrupt ends the process after
\* an interrupt that came during the exposure wait, the last remote-release
\* value the camera took is "Release Full".
C4_ShutterReleasedAtExit ==
  (intAt = "exposing" /\ exitBy = "abort") => shutter = "Release Full"

\* C5: with Frames = N > 0 the frames handed to CaptureBulb are 1, 2, ...
\* in that order and never more than N; the loop goes on exactly while
\* fewer than N cycles are done; and a process that ends with no failed call
\* and no abort has run the cycles 1..N and ends with status 0.
C5_ExactlyNCycles ==
  (Positive(Frames) /\ devUsed) =>
    /\ cycles = UpTo(Len(cycles))
    /\ ~Less64(Frames, I64(Len(cycles)))
    /\ (Running /\ pc = "loop") =>
         /\ Len(cycles) = frame
         /\ LoopCond(frame) <=> Frames # I64(frame)
    /\ pc \in {"close_exit", "close_free"} => Frames = I64(Len(cycles))
    /\ (~Running /\ failed = "none" /\ exitBy # "abort") =>
         /\ exitBy = "return"
         /\ exitCode = 0
         /\ Frames = I64(Len(cycles))

\* C5 witness: a session of 2 frames has run 2 cycles and ended with 0
C5_Witness ==
  /\ Frames = I64(2)
  /\ cycles = <<1, 2>>
  /\ exitBy = "return"
  /\ exitCode = 0

\* C6: with Frames = 0 the capture loop never leaves its body for
\* Close: main never returns, each cycle is followed by the next with the
\* frame number one higher, and only a failed call or the abort ends the
\* process.
C6_Unbounded ==
  (IsZero(Frames) /\ devUsed) =>
    /\ pc \notin {"close_exit", "close_free"}
    /\ exitBy \in {"none", "fatal", "abort"}
    /\ cycles = UpTo(Len(cycles))
    /\ (Running /\ pc = "loop") => (Len(cycles) = frame /\ LoopCond(frame))

\* C6 witness: the unbounded session is back at the loop condition after
\* MaxCycles cycles
C6_Witness ==
  /\ IsZero(Frames)
  /\ Running
  /\ pc = "loop"
  /\ frame = MaxCycles
  /\ cycles = UpTo(MaxCycles)

\* Frames x Duration > 28800 in the integers, for Frames >= 0 and the
\* small Duration >= 0 of DurationChoices
OverEightHours ==
  /\ ~IsZero(Duration)
  /\ Less64(I64(28800 \div AsNat(Duration)), Frames)

ExactlyEightHours ==
  /\ ~OverEightHours
  /\ Mul64(Frames, Duration) = I64(28800)

\* C7 as stated: a kind other than lights and darks, or Frames x Duration
\* over 28800, stops the program before any device call; a valid kind with
\* Frames x Duration = 28800 goes on to Init.
C7_RejectedBeforeDevice ==
  /\ (BadKind \/ OverEightHours) => ~devUsed
  /\ (~BadKind /\ ExactlyEightHours /\ pc # "validate") =>
       (pc = "init" \/ devUsed)

\* C8 as stated: status 0 only after the requested frames were all captured
\* without error; a non-zero status after a failed call, after an abort, and
\* after a configuration the sanity checks turn down.
C8_ExitCodes ==
  ~Running =>
    /\ exitCode = 0 =>
         (devUsed /\ failed = "none" /\ Frames = I64(Len(cycles)))
    /\ (failed # "none" \/ exitBy = "abort" \/ BadKind \/ OverEightHours) =>
         exitCode # 0

NamesOf(m) == {m[i].Name : i \in 1..Len(m)}

\* C9 as stated: for manifests with no name in common, FindNew(A, B) is B.
C9_DisjointGivesB ==
  (fnPc = "done" /\ NamesOf(fnA) \cap NamesOf(fnB) = {}) => fnOut = fnB

NewIdx(a, b) ==
  {i \in 1..Len(b) : \A j \in 1..Len(a) : a[j].Name # b[i].Name}

\* C11: for manifests A and B of different lengths FindNew(A, B) holds
\* exactly the records of B whose name no record of A has, each as often as
\* B has it and in B's order, whatever their directories; the call always
\* returns, and A and B are as before.
C11_NewByNameInOrder ==
  /\ [](fnPc = "done" /\ Len(fnA) # Len(fnB) =>
         /\ Len(fnOut) = Cardinality(NewIdx(fnA, fnB))
         /\ \E pos \in [1..Len(fnOut) -> NewIdx(fnA, fnB)] :
              /\ \A i, j \in 1..Len(fnOut) : i < j => pos[i] < pos[j]
              /\ \A i \in 1..Len(fnOut) : fnOut[i] = fnB[pos[i]])
  /\ [][fnPc' = "done" /\ fnA' = fnA /\ fnB' = fnB]_vars

\* C11 witness: FindNew was applied to manifests of different lengths where
\* B has a record that A has under the same name in another directory, and
\* a record under a name A has not
C11_Witness ==
  /\ fnPc = "done"
  /\ Len(fnA) # Len(fnB)
  /\ \E i \in 1..Len(fnB), j \in 1..Len(fnA) :
       fnB[i].Name = fnA[j].Name /\ fnB[i].Folder # fnA[j].Folder
  /\ fnOut # <<>>

\* C12 as stated: for an unbounded session of lights, frame 3, 45 seconds
\* and battery 75% the line has one blank before 45; for a session of 10
\* darks, frame 2, 12 seconds and battery 60% it has one blank before 12.
C12_LinesAsStated ==
  stPc = "done" =>
    /\ (IsZero(Frames) /\ Kind = "lights" /\ stFrame = 3 /\ stSeconds = 45
          /\ Battery = "75%") =>
         stOut = "Capturing lights frame   3; 45 seconds remaining; battery: 75%"
    /\ (Frames = I64(10) /\ Kind = "darks" /\ stFrame = 2 /\ stSeconds = 12
          /\ Battery = "60%") =>
         stOut = "Capturing darks frame   2/10; 12 seconds remaining; battery: 60%"

\* n in a field of three, as far as StatusFrameArgs and StatusSecondsArgs go
InThree(n) ==
  (IF n < 10 THEN "  " ELSE IF n < 100 THEN " " ELSE "") \o Itoa(n)

\* the /<target> part
TargetPart == IF Frames = I64(0) THEN "" ELSE "/" \o Itoa(AsNat(Frames))

\* C12 amended: the frame and the seconds are both right-aligned in three
\* columns, so the two lines are as below, with two blanks before 45 and
\* before 12; /<target> is there exactly when the target is not 0.
C12_LinesPadded ==
  stPc = "done" =>
    /\ (IsZero(Frames) /\ Kind = "lights" /\ stFrame = 3 /\ stSeconds = 45
          /\ Battery = "75%") =>
         stOut = "Capturing lights frame   3;  45 seconds remaining; battery: 75%"
    /\ (Frames = I64(10) /\ Kind = "darks" /\ stFrame = 2 /\ stSeconds = 12
          /\ Battery = "60%") =>
         stOut = "Capturing darks frame   2/10;  12 seconds remaining; battery: 60%"
    /\ stOut = "Capturing " \o Kind \o " frame " \o InThree(stFrame)
                 \o TargetPart \o "; " \o InThree(stSeconds)
                 \o " seconds remaining; battery: " \o Battery

\* C12 witness: Status has formatted the line of the 10-darks example
C12_Witness ==
  /\ stPc = "done"
  /\ Frames = I64(10)
  /\ Kind = "darks"
  /\ stFrame = 2
  /\ stSeconds = 12
  /\ Battery = "60%"

\* C13 as stated: with -keep a downloaded file is still on the camera; without
\* it the file is gone from the camera (as long as the camera stores every
\* frame under a name it never used before).
C13_KeepDecides ==
  /\ Keep => \A d \in downloads : d[2] \in CardNames(card)
  /\ (~Keep /\ onlyAdded) => \A d \in downloads : d[2] \notin CardNames(card)

\* a call of an exposure cycle has failed (not one of Init or of Close)
CycleFailed == cycles # <<>> /\ failed \notin {"none", "Exit", "Free"}

\* C14: once a call of an exposure cycle has failed, the process has ended
\* with a non-zero status; the failed call is the last one CaptureBulb made
\* and the only one that failed; the new files from the failed one on are
\* not downloaded; no further cycle was started; and nothing is called
\* afterwards.
C14_FailureIsFinal ==
  /\ [](CycleFailed =>
          /\ ~Running
          /\ pc = "exited"
          /\ exitBy = "fatal"
          /\ exitCode # 0
          /\ cmds # <<>>
          /\ ~cmds[Len(cmds)].ok
          /\ \A i \in 1..(Len(cmds) - 1) : cmds[i].ok
          /\ Len(cycles) = frame + 1
          /\ failed \in {"Create", "DownloadImage"} =>
               DownloadedIn(Len(cycles)) = {newFiles[i].Name : i \in 1..(dlIdx - 1)})
  /\ [][CycleFailed =>
          UNCHANGED <<cmds, cycles, downloads, hostFiles, card, shutter, pc>>]_vars

\* C14 witness: the listing showed two new files and the download of the
\* first one failed
C14_Witness ==
  /\ failed = "DownloadImage"
  /\ Len(newFiles) = 2
  /\ dlIdx = 1
  /\ cmds[Len(cmds)] = [op |-> "DownloadImage", ok |-> FALSE]

\* the i-th call of an exposure cycle: Arming (battery, then arm), Releasing,
\* Listing (reset, then listing), Downloading (create and download per file)
CycleCall(i) ==
  IF i <= 8
  THEN << "GetSetting(batterylevel)", "Get(batterylevel)",
          "GetSetting(eosremoterelease)", "Set(Immediate)",
          "GetSetting(eosremoterelease)", "Set(Release Full)",
          "Reset", "ListFiles" >>[i]
  ELSE IF i % 2 = 1 THEN "Create" ELSE "DownloadImage"

\* the calls CaptureBulb has made when the main flow is at a position
CallsMadeAt(p) ==
  CASE p = "bat_get" -> 0
    [] p = "bat_val" -> 1
    [] p = "arm_get" -> 2
    [] p = "arm_set" -> 3
    [] p \in {"exposing", "rel_get"} -> 4
    [] p = "rel_set" -> 5
    [] p \in {"settling", "reset"} -> 6
    [] p = "list" -> 7
    [] p = "create" -> 8 + 2 * (dlIdx - 1)
    [] p = "download" -> 9 + 2 * (dlIdx - 1)

InCycle ==
  pc \in {"bat_get", "bat_val", "arm_get", "arm_set", "exposing", "rel_get",
          "rel_set", "settling", "reset", "list", "create", "download"}

\* C15: the calls of a cycle are made in the fixed order battery, arm,
\* release, reset, listing, then create and download per new file; each is
\* made only after all the earlier ones of the cycle succeeded; the waits
\* come after the arm and after the release; no more files are downloaded
\* than were listed as new; and a cycle starts only after every new file of
\* the cycle before it was downloaded.
C15_CycleOrder ==
  /\ \A i \in 1..Len(cmds) : cmds[i].op = CycleCall(i)
  /\ \A i \in 1..(Len(cmds) - 1) : cmds[i].ok
  /\ Len(cmds) <= 8 + 2 * Len(newFiles)
  /\ (Running /\ InCycle) =>
       /\ Len(cmds) = CallsMadeAt(pc)
       /\ \A i \in 1..Len(cmds) : cmds[i].ok
       /\ pc \in {"create", "download"} => dlIdx \in 1..Len(newFiles)
  /\ (Running /\ frame >= 1 /\ Len(cmds) < 8) =>
       \A i \in 1..Len(newFiles) : <<frame, newFiles[i].Name>> \in downloads

\* C15 witness: the second cycle is downloading after the first cycle
\* downloaded a file
C15_Witness ==
  /\ Running
  /\ cycles = <<1, 2>>
  /\ pc = "download"
  /\ DownloadedIn(1) # {}

\* the seconds shown by the lines printed for frame f, in order
SecondsShown(f) ==
  LET OfFrame(p) == p.frame = f
      lines == SelectSeq(printed, OfFrame)
  IN [i \in 1..Len(lines) |-> lines[i].left]

\* <<from, from - 1, ..., downTo + 1>>
Countdown(from, downTo) == [i \in 1..(from - downTo) |-> from + 1 - i]

\* the seconds the print goroutine of frame f has left; 0 when it is over
LeftOf(f) ==
  IF \E r \in reporters : r.frame = f
  THEN (CHOOSE r \in reporters : r.frame = f).left
  ELSE 0

\* C16: the print goroutine of a frame prints its lines with the seconds
\* D, D - 1, ... in that order under the frame's number: what it has
\* printed so far is the countdown from D to just above what it has left,
\* so when it is over it has printed exactly D lines ending with 1, and it
\* prints no more; a frame whose goroutine was not started has no line; with
\* D <= 0 nothing is printed at all; and in the end, unless the process has
\* ended first, every goroutine that was started is over with all its D
\* lines printed.
C16_Countdown ==
  /\ [](/\ \A p \in {printed[i] : i \in 1..Len(printed)} : p.frame \in started
        /\ \A f \in started :
             /\ Cardinality({r \in reporters : r.frame = f}) <= 1
             /\ Positive(Duration) =>
                  SecondsShown(f) = Countdown(AsNat(Duration), LeftOf(f))
        /\ \A r \in reporters :
             r.frame \in started /\ r.left \in 1..AsNat(Duration)
        /\ ~Positive(Duration) => (printed = <<>> /\ reporters = {}))
  /\ <>[](~Running \/ \A f \in started :
                         /\ LeftOf(f) = 0
                         /\ SecondsShown(f) = Countdown(AsNat(Duration), 0))

\* C16 witness: with a duration of 2 the goroutine of frame 1 is over and
\* has printed 2 and 1
C16_Witness ==
  /\ Duration = I64(2)
  /\ 1 \in started
  /\ LeftOf(1) = 0
  /\ SecondsShown(1) = <<2, 1>>

\* C17: a step that prints a line changes no field of the session, no
\* position or local of the main flow or of the interrupt goroutine,
\* nothing on the camera or under the target directory, and calls nothing;
\* and whenever the main flow is in the wait of the exposure, the end of the
\* wait is enabled, whatever has been printed.
C17_ReporterOnlyObserves ==
  /\ []((Running /\ pc = "exposing") => ENABLED Exposed)
  /\ [][printed' # printed =>
          UNCHANGED <<cfgVars, sessVars, mainVars, abortVars, devVars, exitVars,
                      histVars, cmds, started>>]_vars

\* C17 witness: the wait of the exposure is over and the main flow is at the
\* release command while the goroutine of the frame has printed nothing yet
C17_Witness ==
  /\ Running
  /\ pc = "rel_get"
  /\ FrameArg(frame) \in started
  /\ LeftOf(FrameArg(frame)) = AsNat(Duration)
  /\ Positive(Duration)
  /\ SecondsShown(FrameArg(frame)) = <<>>

\* C20 as stated: never more than one print goroutine at work; the lines
\* come out frame by frame, none of frame k after one of frame k+1; and all
\* the lines of a frame show the same battery level, the one c.Battery held
\* when the frame was armed.
C20_OneReporterAtATime ==
  /\ Cardinality(reporters) <= 1
  /\ \A i, j \in 1..Len(printed) :
       i < j => printed[i].frame <= printed[j].frame
  /\ \A i, j \in 1..Len(printed) :
       printed[i].frame = printed[j].frame =>
         printed[i].battery = printed[j].battery

\* the main flow is between the two device calls of one command: GetSetting
\* done, Get or Set to come (GetBatteryStatus, SetConfig)
MainMidCommand == pc \in {"bat_val", "arm_set", "rel_set"}

\* the interrupt goroutine is between the two device calls of its SetConfig
AbortMidCommand == hpc = "set"

\* C18: nothing holds a device call of one flow back while a command of the
\* other is half done: the calls of the interrupt goroutine's SetConfig are
\* enabled wherever the main flow is, and the second call of a command of
\* the main flow is enabled wherever the goroutine is.
C18_NotSerialized ==
  /\ (Running /\ hpc = "get") => ENABLED AbortGetSetting
  /\ (Running /\ hpc = "set") => ENABLED AbortSet
  /\ (Running /\ pc = "bat_val") => ENABLED BatteryGet
  /\ (Running /\ pc = "arm_set") => ENABLED ArmSet
  /\ (Running /\ pc = "rel_set") => ENABLED ReleaseSet

\* C18 witness: the goroutine has made the first call of its SetConfig, the
\* main flow the first call of a command of its own, and neither has made
\* the second: two commands are half done on the one camera
C18_Witness ==
  /\ Running
  /\ AbortMidCommand
  /\ MainMidCommand
  /\ relAttempts >= 1

\* C19: c.Files stays the manifest that Init loaded, and no file under a
\* name of that manifest is found new, created under the target directory
\* or downloaded, in any cycle and whatever is on the card by then.
C19_InitFilesNeverDownloaded ==
  /\ [](/\ \A d \in downloads : d[2] \notin NamesOf(Files)
        /\ \A n \in hostFiles : n \notin NamesOf(Files)
        /\ \A i \in 1..Len(newFiles) : newFiles[i].Name \notin NamesOf(Files))
  /\ [][pc \notin {"validate", "init"} => NamesOf(Files') = NamesOf(Files)]_vars

\* C19 witness: a cycle is downloading a new file from a listing in which a
\* name of the Init manifest appears again, in another directory
C19_Witness ==
  /\ Running
  /\ pc = "download"
  /\ \E i \in 1..Len(files), j \in 1..Len(Files) :
       files[i].Name = Files[j].Name /\ files[i].Folder # Files[j].Folder

====
